---- MODULE Spec2Model ----
(***************************************************************************)
(* QuizCam AI: the quiz generation flow (generate-quiz-from-image.ts) and  *)
(* the client quiz session of the page component (App): question index,   *)
(* answer capture, the auto-advance timer, scoring and the handoff of the  *)
(* results through router.push.                                            *)
(*                                                                         *)
(* React state is modelled by one variable per useState cell.  An event   *)
(* handler invoked from the UI reads the cells of the latest render; a     *)
(* setTimeout callback reads the cells of the render in which it was       *)
(* created, so a pending timer carries a copy of those cells (its          *)
(* closure).  Functional updates (setX(prev => ...)) act on the live cell. *)
(***************************************************************************)
EXTENDS Integers, Sequences, FiniteSets, TLC

\* ---------------------------------------------------------------- bounds
MaxLen == 2            \* longest question list the generator returns
MaxSessions == 2       \* Generate clicks followed along one behaviour

\* ------------------------------------------------------ program constants
MinQuestions == 1
MaxQuestions == 10
DefaultNumQuestions == 5
NumOptions == 4

\* null / undefined of an optional field: the empty tuple; a set value v is <<v>>
Null == <<>>
Some(v) == <<v>>

NoImage == "null"
DataUri == "data:image/png;base64"

\* language codes detectLanguageTool may return (its output schema is any
\* string; the body shipped is a stand-in that returns "en")
Languages == {"en", "mr", "es"}

\* the language codes whose first translation block is skipped
NativeLanguages == {"en", "mr"}

\* ------------------------------------------------------------------ texts
\* A string of the quiz: text j of question k (j = 0 the question, j >= 1
\* option j).  The third component records where the string comes from:
\* "gen" as generateQuizPrompt produced it, else the target language of the
\* translateTextTool call it was returned by.
Text(k, j, l) == <<k, j, l>>

\* translateTextTool: the same text (the body shipped returns input.text),
\* marked as returned by a call with this targetLanguage
translateTextTool(text, targetLanguage) == <<text[1], text[2], targetLanguage>>

\* -------------------------------------------------------------- generator
GenQuestion(k, m, c) ==
  [question |-> Text(k, 0, "gen"),
   options |-> [j \in 1..m |-> Text(k, j, "gen")],
   correctAnswerIndex |-> c]

\* n questions as the prompt asks for them: 4 options, a valid index
WellFormed(n) == [k \in 1..n |-> GenQuestion(k, NumOptions, k % NumOptions)]

\* a question list the prompt does not ask for but the output schema admits:
\* 3 options and an index that names none of them
Malformed == <<GenQuestion(1, NumOptions - 1, NumOptions)>>

\* what generateQuizPrompt may return: its output schema bounds neither the
\* number of questions, nor the number of options, nor the index
GeneratorOutputs == {WellFormed(n) : n \in 0..MaxLen} \cup {Malformed}

\* the option buttons the user clicks
ClickIndices == {1, 2}

\* numbers the user can type into the numQuestions input
RequestCounts == {0, MaxLen}

\* GenerateQuizFromImageInputSchema
InputSchemaOk_noMin(input) == input.numQuestions <= MaxQuestions

InputSchemaOk(input) ==
  /\ input.photoDataUri \in STRING
  /\ input.numQuestions >= MinQuestions
  /\ input.numQuestions <= MaxQuestions

\* photoDataUri values a caller of the exported generateQuizFromImage can
\* pass (its type is string): the data URI of an image, a data URI without
\* MIME type and base64 marker, and a file name
PhotoDataUris == {DataUri, "data:,", "photo.png"}

\* the values of the form data:<mimetype>;base64,<encoded_data>
WellFormedUris == {DataUri}

\* ------------------------------------------------------------------ state
VARIABLES
  numQuestions,         \* useState(5)
  imageSrc,             \* useState(null)
  quiz,                 \* useState([])
  activeQuestionIndex,  \* useState(0)
  quizStarted,          \* useState(false)
  quizLanguage,         \* useState("")
  isGenerating,         \* useState(false)
  isSubmitting,         \* useState(false)
  timers,               \* pending setTimeout callbacks, oldest first
  flow,                 \* the generateQuizFromImageFlow run in flight
  pushes,               \* router.push calls since the last Start
  sessionNo,            \* number of quizzes started so far
  lastClick,            \* what the last step did, when it was an option click
  resultsPage,          \* what QuizResultsPage last rendered (Null: nothing yet)
  quizHistory,          \* the list the History tab shows: useState([]) of the
                        \* page with a quiz history; the page with the timer
                        \* declares no such cell and writes none
  toasts,               \* the toast calls of the last step of the page with
                        \* a quiz history
  camera,               \* the captureImage call of that page
  pageCalls,            \* its generateQuizFromImage calls in flight
  analysis              \* the analyzeQuizPerformanceFlow run

vars == <<numQuestions, imageSrc, quiz, activeQuestionIndex, quizStarted,
          quizLanguage, isGenerating, isSubmitting, timers, flow, pushes,
          sessionNo, lastClick, resultsPage, quizHistory, toasts, camera,
          pageCalls, analysis>>

uiVars == <<numQuestions, imageSrc>>
sessionVars == <<quiz, activeQuestionIndex, quizStarted, quizLanguage>>

\* the cells of the page with a quiz history that the page with the timer
\* does not have
pageVars == <<quizHistory, toasts, camera, pageCalls>>

\* what no handler of the quiz page touches: the results page, the page with
\* a quiz history, and the analysis flow
elsewhere == <<resultsPage, pageVars, analysis>>

\* a run of the flow: its position, its locals, and of the translation block
\* in progress the translateTextTool calls in flight (pending), the calls that
\* have returned with their result (done) and the questions whose async
\* function has completed, in the order of completion (order).  draft is the
\* question list as generateQuizPrompt returned it, and made the
\* translateTextTool calls issued, <<block, question, text, targetLanguage>>.
IdleFlow ==
  [pc |-> "idle", input |-> Null, detectedLanguage |-> Null,
   prompt |-> Null, output |-> Null, draft |-> Null,
   pending |-> {}, done |-> {}, order |-> <<>>, made |-> {}]

\* no captureImage call yet
IdleCamera ==
  [pc |-> "idle", promise |-> "none", inBody |-> FALSE, tracks |-> "none",
   reason |-> Null]

Init ==
  /\ numQuestions = DefaultNumQuestions
  /\ imageSrc = NoImage
  /\ quiz = <<>>
  /\ activeQuestionIndex = 0
  /\ quizStarted = FALSE
  /\ quizLanguage = ""
  /\ isGenerating = FALSE
  /\ isSubmitting = FALSE
  /\ timers = <<>>
  /\ flow = IdleFlow
  /\ pushes = <<>>
  /\ sessionNo = 0
  /\ lastClick = "none"
  /\ resultsPage = Null
  /\ quizHistory = <<>>
  /\ toasts = <<>>
  /\ camera = IdleCamera
  /\ pageCalls = 0
  /\ analysis = Null

\* ---------------------------------------------------------- configuration
\* onChange of the numQuestions input (shown while no quiz is started)
SetNumQuestions(n) ==
  /\ ~quizStarted
  /\ numQuestions' = n
  /\ lastClick' = "none"
  /\ UNCHANGED <<imageSrc, sessionVars, isGenerating, isSubmitting, timers,
                 flow, pushes, sessionNo>>
  /\ UNCHANGED elsewhere

\* handleImageUpload with a file (reader.onloadend) / handleCaptureImage:
\* imageSrc becomes a data URI
handleImageUpload(file) ==
  /\ ~quizStarted
  /\ imageSrc' = file
  /\ lastClick' = "none"
  /\ UNCHANGED <<numQuestions, sessionVars, isGenerating, isSubmitting,
                 timers, flow, pushes, sessionNo>>
  /\ UNCHANGED elsewhere

\* ------------------------------------------------ generateQuizFromImageFlow
\* the flow's return: the result is checked against
\* GenerateQuizFromImageOutputSchema, which asks for an array of questions
\* with an integer correctAnswerIndex and nothing more
OutputSchemaOk(questions) ==
  \A k \in DOMAIN questions : questions[k].correctAnswerIndex \in Int

FlowReturn(f) ==
  IF OutputSchemaOk(f.output)
    THEN [f EXCEPT !.pc = "resolved"]
    ELSE [f EXCEPT !.pc = "rejected"]

\* the text at position p = <<k, j>> of a question list
TextAt(questions, p) ==
  IF p[2] = 0 THEN questions[p[1]].question
              ELSE questions[p[1]].options[p[2]]

\* the positions of the texts of a question list
Positions(questions) ==
  {<<k, 0>> : k \in DOMAIN questions}
    \cup UNION {{<<k, j>> : j \in DOMAIN questions[k].options} :
                  k \in DOMAIN questions}

\* translateTextTool({text: option, targetLanguage}) for the options of question k
OptionCalls(questions, k) == {<<k, j>> : j \in DOMAIN questions[k].options}

\* the calls of a set of positions, as recorded in made
Made(block, positions, targetLanguage) ==
  {<<block, p[1], p[2], targetLanguage>> : p \in positions}

\* output!.questions = await Promise.all(output!.questions.map(...)): the
\* async function of every question starts and awaits translateTextTool on
\* its question text
BeginPass(f, pcName) ==
  LET first == {<<k, 0>> : k \in DOMAIN f.output} IN
  [f EXCEPT !.pc = pcName,
            !.pending = first,
            !.done = {},
            !.order = <<>>,
            !.made = @ \cup Made(pcName, first, f.detectedLanguage[1])]

\* if (detectedLanguage === 'mr') { ... }
SecondBlock_anyLanguage(f) ==
  IF f.detectedLanguage # Some("en") /\ Len(f.output) > 0
    THEN BeginPass(f, "translate_mr")
    ELSE FlowReturn(f)

SecondBlock(f) ==
  IF f.detectedLanguage = Some("mr") /\ Len(f.output) > 0
    THEN BeginPass(f, "translate_mr")
    ELSE FlowReturn(f)

\* if (detectedLanguage !== 'en' && detectedLanguage !== 'mr') { ... }
FirstBlock(f) ==
  IF f.detectedLanguage[1] \notin NativeLanguages /\ Len(f.output) > 0
    THEN BeginPass(f, "translate")
    ELSE SecondBlock(f)

\* the Generate Quiz button (disabled without an image or while generating)
\* and generateQuiz up to its await
generateQuiz ==
  /\ ~quizStarted
  /\ imageSrc # NoImage
  /\ ~isGenerating
  /\ sessionNo < MaxSessions
  /\ isGenerating' = TRUE
  /\ flow' = [IdleFlow EXCEPT
                !.pc = "called",
                !.input = Some([photoDataUri |-> imageSrc,
                                numQuestions |-> numQuestions])]
  /\ lastClick' = "none"
  /\ UNCHANGED <<uiVars, sessionVars, isSubmitting, timers, pushes, sessionNo>>
  /\ UNCHANGED elsewhere

\* the flow is entered: inputSchema is checked, then detectLanguageTool is called
FlowEnter ==
  /\ flow.pc = "called"
  /\ flow' = IF InputSchemaOk(flow.input[1])
               THEN [flow EXCEPT !.pc = "detect"]
               ELSE [flow EXCEPT !.pc = "rejected"]
  /\ lastClick' = "none"
  /\ UNCHANGED <<uiVars, sessionVars, isGenerating, isSubmitting, timers,
                 pushes, sessionNo>>
  /\ UNCHANGED elsewhere

\* the argument of generateQuizPrompt: {...input, language: detectedLanguage}
PromptInput_hardcoded(input, detectedLanguage) ==
  [photoDataUri |-> input.photoDataUri,
   numQuestions |-> input.numQuestions,
   language |-> "en"]

PromptInput(input, detectedLanguage) ==
  [photoDataUri |-> input.photoDataUri,
   numQuestions |-> input.numQuestions,
   language |-> detectedLanguage]

\* await detectLanguageTool(...) returns a language code; generateQuizPrompt
\* is called with it
DetectReturns(l) ==
  /\ flow.pc = "detect"
  /\ flow' = [flow EXCEPT !.pc = "generate",
                          !.detectedLanguage = Some(l),
                          !.prompt = Some(PromptInput(flow.input[1], l))]
  /\ lastClick' = "none"
  /\ UNCHANGED <<uiVars, sessionVars, isGenerating, isSubmitting, timers,
                 pushes, sessionNo>>
  /\ UNCHANGED elsewhere

\* await generateQuizPrompt(...) returns its output; the two translation
\* blocks are entered or skipped
GenerateReturns(out) ==
  /\ flow.pc = "generate"
  /\ flow' = FirstBlock([flow EXCEPT !.output = out, !.draft = out])
  /\ lastClick' = "none"
  /\ UNCHANGED <<uiVars, sessionVars, isGenerating, isSubmitting, timers,
                 pushes, sessionNo>>
  /\ UNCHANGED elsewhere

\* every text of the list passed through translateTextTool
TranslateAll(questions, targetLanguage) ==
  [k \in DOMAIN questions |->
     [questions[k] EXCEPT
        !.question = translateTextTool(@, targetLanguage),
        !.options = [j \in DOMAIN @ |-> translateTextTool(@[j], targetLanguage)]]]

\* await Promise.all(...) of a translation block: all its calls have returned
TranslationBlockReturns ==
  /\ flow.pc \in {"translate", "translate_mr"}
  /\ LET f == [flow EXCEPT
                 !.output = TranslateAll(flow.output, flow.detectedLanguage[1]),
                 !.pending = {},
                 !.made = @ \cup Made(flow.pc, Positions(flow.output),
                                      flow.detectedLanguage[1])]
     IN flow' = IF flow.pc = "translate" THEN SecondBlock(f) ELSE FlowReturn(f)
  /\ lastClick' = "none"
  /\ UNCHANGED <<uiVars, sessionVars, isGenerating, isSubmitting, timers,
                 pushes, sessionNo>>
  /\ UNCHANGED elsewhere

\* the result recorded in done for the call at position p
ResultAt(done, p) == (CHOOSE r \in done : r[1] = p)[2]

\* Promise.all resolves to the results by position: question k of the new
\* list is {...question, question: translatedQuestion, options: translatedOptions}
Assemble_keepsOptions(questions, done, order) ==
  [k \in DOMAIN questions |->
     [questions[k] EXCEPT !.question = ResultAt(done, <<k, 0>>)]]

Assemble_byCompletion(questions, done, order) ==
  [i \in DOMAIN questions |->
     LET k == order[i] IN
     [questions[k] EXCEPT
        !.question = ResultAt(done, <<k, 0>>),
        !.options = [j \in DOMAIN @ |-> ResultAt(done, <<k, j>>)]]]

Assemble(questions, done, order) ==
  [k \in DOMAIN questions |->
     [questions[k] EXCEPT
        !.question = ResultAt(done, <<k, 0>>),
        !.options = [j \in DOMAIN @ |-> ResultAt(done, <<k, j>>)]]]

\* the call at position p has returned text: the options of a question are
\* sent once its question text is back; a question is complete with its last
\* option; the block is complete with its last question
CallReturned(f, p, text) ==
  LET k == p[1]
      done == f.done \cup {<<p, text>>}
      issued == IF p[2] = 0 THEN OptionCalls(f.output, k) ELSE {}
      pending == (f.pending \ {p}) \cup issued
      complete == \A q \in {<<k, 0>>} \cup OptionCalls(f.output, k) :
                    \E r \in done : r[1] = q
      order == IF complete THEN Append(f.order, k) ELSE f.order
      made == f.made \cup Made(f.pc, issued, f.detectedLanguage[1])
  IN IF pending # {}
       THEN [f EXCEPT !.pending = pending, !.done = done, !.order = order,
                      !.made = made]
       ELSE LET g == [f EXCEPT !.output = Assemble(f.output, done, order),
                               !.pending = {}, !.done = {}, !.order = order,
                               !.made = made]
            IN IF f.pc = "translate" THEN SecondBlock(g) ELSE FlowReturn(g)

\* one translateTextTool call returns
TranslateReturns(p) ==
  /\ flow.pc \in {"translate", "translate_mr"}
  /\ p \in flow.pending
  /\ flow' = CallReturned(flow, p,
                translateTextTool(TextAt(flow.output, p), flow.detectedLanguage[1]))
  /\ lastClick' = "none"
  /\ UNCHANGED <<uiVars, sessionVars, isGenerating, isSubmitting, timers,
                 pushes, sessionNo>>
  /\ UNCHANGED elsewhere

\* the call at position p has rejected: Promise.all rejects, the flow throws
CallRejected_keepsOriginal(f, p) == CallReturned(f, p, TextAt(f.output, p))

CallRejected(f, p) ==
  [f EXCEPT !.pc = "rejected", !.pending = {}, !.done = {}, !.order = <<>>]

\* one translateTextTool call rejects
TranslateFails(p) ==
  /\ flow.pc \in {"translate", "translate_mr"}
  /\ p \in flow.pending
  /\ flow' = CallRejected(flow, p)
  /\ lastClick' = "none"
  /\ UNCHANGED <<uiVars, sessionVars, isGenerating, isSubmitting, timers,
                 pushes, sessionNo>>
  /\ UNCHANGED elsewhere

\* an awaited call (a tool or the prompt) rejects: the flow rejects
FlowCallFails ==
  /\ flow.pc \in {"detect", "generate", "translate", "translate_mr"}
  /\ flow' = [flow EXCEPT !.pc = "rejected", !.pending = {}, !.done = {},
                          !.order = <<>>]
  /\ lastClick' = "none"
  /\ UNCHANGED <<uiVars, sessionVars, isGenerating, isSubmitting, timers,
                 pushes, sessionNo>>
  /\ UNCHANGED elsewhere

\* generatedQuiz.questions.map(question => ({...question, userAnswer: null,
\* isCorrect: null}))
initialQuizState_reversed(questions) ==
  [k \in DOMAIN questions |->
     [question |-> questions[Len(questions) + 1 - k].question,
      options |-> questions[Len(questions) + 1 - k].options,
      correctAnswerIndex |-> questions[Len(questions) + 1 - k].correctAnswerIndex,
      userAnswer |-> Null,
      isCorrect |-> Null]]

initialQuizState(questions) ==
  [k \in DOMAIN questions |->
     [question |-> questions[k].question,
      options |-> questions[k].options,
      correctAnswerIndex |-> questions[k].correctAnswerIndex,
      userAnswer |-> Null,
      isCorrect |-> Null]]

\* generateQuiz after the await, success: the quiz is started
generateQuizResolved ==
  /\ flow.pc = "resolved"
  /\ quiz' = initialQuizState(flow.output)
  /\ activeQuestionIndex' = 0
  /\ quizLanguage' = flow.detectedLanguage[1]
  /\ quizStarted' = TRUE
  /\ isGenerating' = FALSE
  /\ flow' = IdleFlow
  /\ pushes' = <<>>
  /\ sessionNo' = sessionNo + 1
  /\ lastClick' = "none"
  /\ UNCHANGED <<uiVars, isSubmitting, timers>>
  /\ UNCHANGED elsewhere

\* generateQuiz after the await, failure: toast, finally setIsGenerating(false)
generateQuizRejected_resets ==
  /\ flow.pc = "rejected"
  /\ quiz' = <<>>
  /\ activeQuestionIndex' = 0
  /\ isGenerating' = FALSE
  /\ flow' = IdleFlow
  /\ lastClick' = "none"
  /\ UNCHANGED <<uiVars, quizStarted, quizLanguage, isSubmitting, timers,
                 pushes, sessionNo>>
  /\ UNCHANGED elsewhere

generateQuizRejected_retries ==
  /\ flow.pc = "rejected"
  /\ flow' = [IdleFlow EXCEPT !.pc = "called", !.input = flow.input]
  /\ lastClick' = "none"
  /\ UNCHANGED <<uiVars, sessionVars, isGenerating, isSubmitting, timers,
                 pushes, sessionNo>>
  /\ UNCHANGED elsewhere

generateQuizRejected_staysBusy ==
  /\ flow.pc = "rejected"
  /\ flow' = IdleFlow
  /\ lastClick' = "none"
  /\ UNCHANGED <<uiVars, sessionVars, isGenerating, isSubmitting, timers,
                 pushes, sessionNo>>
  /\ UNCHANGED elsewhere

generateQuizRejected ==
  /\ flow.pc = "rejected"
  /\ isGenerating' = FALSE
  /\ flow' = IdleFlow
  /\ lastClick' = "none"
  /\ UNCHANGED <<uiVars, sessionVars, isSubmitting, timers, pushes, sessionNo>>
  /\ UNCHANGED elsewhere

\* ------------------------------------------------------------ quiz session
\* calculateScore, over the quiz of the render the caller belongs to
calculateScore_answered(q) ==
  Cardinality({k \in DOMAIN q : q[k].userAnswer # Null})

calculateScore_total(q) == Len(q)

RECURSIVE calculateScore(_)
calculateScore(q) ==
  IF q = <<>> THEN 0
  ELSE (IF q[1].userAnswer = Some(q[1].correctAnswerIndex) THEN 1 ELSE 0)
       + calculateScore(Tail(q))

\* const currentQuestion = quiz[activeQuestionIndex] (undefined out of range)
HasCurrentQuestion == activeQuestionIndex + 1 \in DOMAIN quiz
currentQuestion == quiz[activeQuestionIndex + 1]

\* the option buttons: rendered for the options of currentQuestion while the
\* quiz is started
OptionShown_always(optionIndex) ==
  /\ HasCurrentQuestion
  /\ optionIndex + 1 \in DOMAIN currentQuestion.options

OptionShown(optionIndex) ==
  /\ quizStarted
  /\ HasCurrentQuestion
  /\ optionIndex + 1 \in DOMAIN currentQuestion.options

\* disabled={currentQuestion.userAnswer !== null}
OptionDisabled == currentQuestion.userAnswer # Null

\* the updater passed to setQuiz in handleAnswerSelection
AnswerUpdate_firstQuestion(prevQuiz, index, optionIndex) ==
  [prevQuiz EXCEPT
     ![1] = [@ EXCEPT
        !.userAnswer = Some(optionIndex),
        !.isCorrect = Some(optionIndex = prevQuiz[1].correctAnswerIndex)]]

AnswerUpdate_noVerdict(prevQuiz, index, optionIndex) ==
  [prevQuiz EXCEPT ![index + 1] = [@ EXCEPT !.userAnswer = Some(optionIndex)]]

AnswerUpdate_rewritesKey(prevQuiz, index, optionIndex) ==
  [prevQuiz EXCEPT
     ![index + 1] = [@ EXCEPT
        !.userAnswer = Some(optionIndex),
        !.correctAnswerIndex = optionIndex,
        !.isCorrect = Some(TRUE)]]

AnswerUpdate(prevQuiz, index, optionIndex) ==
  [prevQuiz EXCEPT
     ![index + 1] = [@ EXCEPT
        !.userAnswer = Some(optionIndex),
        !.isCorrect = Some(optionIndex = prevQuiz[index + 1].correctAnswerIndex)]]

\* what the callback given to setTimeout sees: the cells of the render in
\* which handleAnswerSelection ran (session: the quiz that render belongs to)
Closure ==
  [activeQuestionIndex |-> activeQuestionIndex,
   quiz |-> quiz,
   quizLanguage |-> quizLanguage,
   session |-> sessionNo]

\* if (isSubmitting) return
SubmissionLocked_never == FALSE

SubmissionLocked == isSubmitting

\* a click on an option button, and handleAnswerSelection
handleAnswerSelection(optionIndex) ==
  /\ OptionShown(optionIndex)
  /\ IF OptionDisabled
       THEN /\ lastClick' = "disabled"
            /\ UNCHANGED <<quiz, isSubmitting, timers>>
       ELSE IF SubmissionLocked
         THEN /\ lastClick' = "ignored"
              /\ UNCHANGED <<quiz, isSubmitting, timers>>
         ELSE /\ isSubmitting' = TRUE
              /\ quiz' = AnswerUpdate(quiz, activeQuestionIndex, optionIndex)
              /\ timers' = Append(timers, Closure)
              /\ lastClick' = "accepted"
  /\ UNCHANGED <<uiVars, activeQuestionIndex, quizStarted, quizLanguage,
                 isGenerating, flow, pushes, sessionNo>>
  /\ UNCHANGED elsewhere

\* a click where the page shows no such option button (the configuration
\* cards are shown, or there is no current question): no handler runs
ClickWithoutButton(optionIndex) ==
  /\ ~OptionShown(optionIndex)
  /\ lastClick' = "absent"
  /\ UNCHANGED <<uiVars, sessionVars, isGenerating, isSubmitting, timers,
                 flow, pushes, sessionNo>>
  /\ UNCHANGED elsewhere

\* what handleFinishQuiz hands to router.push: the quiz, the score and the
\* language of the render it belongs to (session: the quiz that render
\* belongs to; live: the quiz cell at that moment)
Handoff(q, language, session) ==
  [quiz |-> q, score |-> calculateScore(q), language |-> language,
   session |-> session, live |-> quiz]

\* ------------------------------------------------------------ the handoff
\* A JavaScript value, as far as JSON knows it: <<"null">>, <<"bool", b>>,
\* <<"num", n>>, <<"str", x>>, <<"arr", elements>>, <<"obj", members>> with
\* members a sequence of <<key, value>> in insertion order
JNull == <<"null">>
JBool(b) == <<"bool", b>>
JNum(n) == <<"num", n>>
JStr(x) == <<"str", x>>
JArr(elements) == <<"arr", elements>>
JObj(members) == <<"obj", members>>
Undefined == <<"undefined">>
NaN == <<"NaN">>

\* a question of the quiz cell as a JavaScript object: the fields of the
\* generated question, then userAnswer and isCorrect
JsQuestion(q) ==
  JObj(<< <<"question", JStr(q.question)>>,
          <<"options", JArr([j \in DOMAIN q.options |-> JStr(q.options[j])])>>,
          <<"correctAnswerIndex", JNum(q.correctAnswerIndex)>>,
          <<"userAnswer",
            IF q.userAnswer = Null THEN JNull ELSE JNum(q.userAnswer[1])>>,
          <<"isCorrect",
            IF q.isCorrect = Null THEN JNull ELSE JBool(q.isCorrect[1])>> >>)

JsQuiz(q) == JArr([k \in DOMAIN q |-> JsQuestion(q[k])])

\* JSON text as its sequence of tokens: the punctuation <<"[">>, <<"]">>,
\* <<"{">>, <<"}">>, <<",">>, <<":">> and the scalars as they are
Tok(c) == <<c>>

\* JSON.stringify
RECURSIVE JSONstringify(_)
RECURSIVE StringifyElements(_, _)
RECURSIVE StringifyMembers_dropsNull(_, _)
RECURSIVE StringifyMembers(_, _)
StringifyElements(elements, i) ==
  IF i > Len(elements) THEN <<>>
  ELSE (IF i > 1 THEN <<Tok(",")>> ELSE <<>>)
         \o JSONstringify(elements[i]) \o StringifyElements(elements, i + 1)

StringifyMembers_dropsNull(members, i) ==
  IF i > Len(members) THEN <<>>
  ELSE IF members[i][2][1] = "null"
    THEN StringifyMembers_dropsNull(members, i + 1)
    ELSE (IF i > 1 THEN <<Tok(",")>> ELSE <<>>)
           \o <<JStr(members[i][1]), Tok(":")>>
           \o JSONstringify(members[i][2])
           \o StringifyMembers_dropsNull(members, i + 1)

StringifyMembers(members, i) ==
  IF i > Len(members) THEN <<>>
  ELSE (IF i > 1 THEN <<Tok(",")>> ELSE <<>>)
         \o <<JStr(members[i][1]), Tok(":")>>
         \o JSONstringify(members[i][2])
         \o StringifyMembers(members, i + 1)

JSONstringify(v) ==
  CASE v[1] = "arr" -> <<Tok("[")>> \o StringifyElements(v[2], 1) \o <<Tok("]")>>
    [] v[1] = "obj" -> <<Tok("{")>> \o StringifyMembers(v[2], 1) \o <<Tok("}")>>
    [] OTHER -> <<v>>

\* JSON.parse: ok with the value, or not ok (a SyntaxError is thrown)
SyntaxError == [ok |-> FALSE, value |-> Undefined, next |-> 0]
Parsed(v, next) == [ok |-> TRUE, value |-> v, next |-> next]

RECURSIVE ParseValue(_, _)
RECURSIVE ParseElements(_, _, _)
RECURSIVE ParseMembers(_, _, _)
ParseElements(t, i, acc) ==
  LET r == ParseValue(t, i) IN
  IF ~r.ok \/ r.next > Len(t) THEN SyntaxError
  ELSE IF t[r.next][1] = ","
    THEN ParseElements(t, r.next + 1, Append(acc, r.value))
  ELSE IF t[r.next][1] = "]"
    THEN Parsed(JArr(Append(acc, r.value)), r.next + 1)
  ELSE SyntaxError

ParseMembers(t, i, acc) ==
  IF i + 2 > Len(t) \/ t[i][1] # "str" \/ t[i + 1][1] # ":" THEN SyntaxError
  ELSE LET r == ParseValue(t, i + 2) IN
    IF ~r.ok \/ r.next > Len(t) THEN SyntaxError
    ELSE IF t[r.next][1] = ","
      THEN ParseMembers(t, r.next + 1, Append(acc, <<t[i][2], r.value>>))
    ELSE IF t[r.next][1] = "}"
      THEN Parsed(JObj(Append(acc, <<t[i][2], r.value>>)), r.next + 1)
    ELSE SyntaxError

ParseValue(t, i) ==
  IF i > Len(t) THEN SyntaxError
  ELSE CASE t[i][1] \in {"null", "bool", "num", "str"} -> Parsed(t[i], i + 1)
         [] t[i][1] = "[" ->
              IF i + 1 <= Len(t) /\ t[i + 1][1] = "]"
                THEN Parsed(JArr(<<>>), i + 2)
                ELSE ParseElements(t, i + 1, <<>>)
         [] t[i][1] = "{" ->
              IF i + 1 <= Len(t) /\ t[i + 1][1] = "}"
                THEN Parsed(JObj(<<>>), i + 2)
                ELSE ParseMembers(t, i + 1, <<>>)
         [] OTHER -> SyntaxError

JSONparse(t) ==
  LET r == ParseValue(t, 1) IN
  IF r.ok /\ r.next = Len(t) + 1 THEN r ELSE SyntaxError

\* a decimal string as the sequence of its characters
DigitChars == <<"0", "1", "2", "3", "4", "5", "6", "7", "8", "9">>
IsDigit(c) == \E d \in DOMAIN DigitChars : DigitChars[d] = c
DigitValue(c) == (CHOOSE d \in DOMAIN DigitChars : DigitChars[d] = c) - 1

\* score.toString(), of a score that is a natural number
RECURSIVE toString(_)
toString(n) ==
  IF n < 10 THEN <<DigitChars[n + 1]>>
  ELSE toString(n \div 10) \o <<DigitChars[(n % 10) + 1]>>

\* parseInt(string): leading blanks and a sign are skipped, the digits that
\* follow are read up to the first other character, NaN if there is none
RECURSIVE ReadDigits(_, _, _)
ReadDigits(chars, i, acc) ==
  IF i <= Len(chars) /\ IsDigit(chars[i])
    THEN ReadDigits(chars, i + 1, acc * 10 + DigitValue(chars[i]))
    ELSE acc

RECURSIVE SkipBlanks(_, _)
SkipBlanks(chars, i) ==
  IF i <= Len(chars) /\ chars[i] = " " THEN SkipBlanks(chars, i + 1) ELSE i

parseInt(chars) ==
  LET b == SkipBlanks(chars, 1)
      signed == b <= Len(chars) /\ chars[b] \in {"+", "-"}
      d == IF signed THEN b + 1 ELSE b
      magnitude == ReadDigits(chars, d, 0)
  IN IF d > Len(chars) \/ ~IsDigit(chars[d]) THEN NaN
     ELSE JNum(IF signed /\ chars[b] = "-" THEN 0 - magnitude ELSE magnitude)

\* url.searchParams of the URL handleFinishQuiz pushes: the parameters in
\* the order of the append calls
HandoffUrl(h) ==
  << <<"quiz", JSONstringify(JsQuiz(h.quiz))>>,
     <<"score", toString(h.score)>>,
     <<"language", h.language>> >>

\* searchParams.get(name): the value of the first parameter of that name,
\* null if there is none
Get(params, name) ==
  LET hits == {i \in DOMAIN params : params[i][1] = name} IN
  IF hits = {} THEN Null
  ELSE Some(params[CHOOSE i \in hits : \A o \in hits : i <= o][2])

\* what a user can do to the URL before the results page reads it: nothing,
\* or a hand edit of the quiz or of the score parameter
Edits ==
  {"none", "noQuiz", "emptyQuiz", "truncated", "null", "number", "object",
   "listOfNumber", "listOfNull", "listOfEmptyObject",
   "noScore", "emptyScore", "letters"}

SetParam(params, name, value) ==
  [i \in DOMAIN params |->
     IF params[i][1] = name THEN <<name, value>> ELSE params[i]]

RemoveParam(params, name) == SelectSeq(params, LAMBDA pair : pair[1] # name)

Edit(params, e) ==
  CASE e = "none" -> params
    [] e = "noQuiz" -> RemoveParam(params, "quiz")
    [] e = "emptyQuiz" -> SetParam(params, "quiz", <<>>)
    [] e = "truncated" ->
         SetParam(params, "quiz",
                  SubSeq(Get(params, "quiz")[1], 1, Len(Get(params, "quiz")[1]) - 1))
    [] e = "null" -> SetParam(params, "quiz", <<JNull>>)
    [] e = "number" -> SetParam(params, "quiz", <<JNum(5)>>)
    [] e = "object" -> SetParam(params, "quiz", <<Tok("{"), Tok("}")>>)
    [] e = "listOfNumber" ->
         SetParam(params, "quiz", <<Tok("["), JNum(5), Tok("]")>>)
    [] e = "listOfNull" ->
         SetParam(params, "quiz", <<Tok("["), JNull, Tok("]")>>)
    [] e = "listOfEmptyObject" ->
         SetParam(params, "quiz", <<Tok("["), Tok("{"), Tok("}"), Tok("]")>>)
    [] e = "noScore" -> RemoveParam(params, "score")
    [] e = "emptyScore" -> SetParam(params, "score", <<>>)
    [] e = "letters" -> SetParam(params, "score", <<"a", "b">>)

\* a parameter value that is null or the empty string
Falsy(value) == value = Null \/ value[1] = <<>>

\* parseQuiz: quizData ? JSON.parse(quizData) : [], and [] when JSON.parse throws
parseQuiz(quizData) ==
  IF Falsy(quizData) THEN JArr(<<>>)
  ELSE LET r == JSONparse(quizData[1]) IN
       IF r.ok THEN r.value ELSE JArr(<<>>)

\* object.name: the value of the last member of that name, undefined if the
\* value is no object or has no such member
Member(v, name) ==
  IF v[1] # "obj" THEN Undefined
  ELSE LET hits == {i \in DOMAIN v[2] : v[2][i][1] = name} IN
       IF hits = {} THEN Undefined
       ELSE v[2][CHOOSE i \in hits : \A o \in hits : i >= o][2]

\* the card of one entry: question.isCorrect, question.userAnswer and
\* question.options[...] are read; a TypeError is thrown when the entry is
\* null or its options are undefined or null
CardThrows(entry) ==
  \/ entry[1] = "null"
  \/ Member(entry, "options")[1] \in {"undefined", "null"}

\* the render of the page: parsedQuiz.length and parsedQuiz.map(...) throw a
\* TypeError unless parsedQuiz is an array, and so does a card that throws
RenderThrows(parsedQuiz) ==
  \/ parsedQuiz[1] # "arr"
  \/ \E k \in DOMAIN parsedQuiz[2] : CardThrows(parsedQuiz[2][k])

\* QuizResultsPage, opened with the URL of the latest router.push as the
\* user left it
QuizResultsPage(e) ==
  /\ pushes # <<>>
  /\ LET handoff == pushes[Len(pushes)]
         searchParams == Edit(HandoffUrl(handoff), e)
         score == Get(searchParams, "score")
         parsedQuiz == parseQuiz(Get(searchParams, "quiz"))
     IN resultsPage' =
          Some([handoff |-> handoff,
                edit |-> e,
                parsedQuiz |-> parsedQuiz,
                quizScore |-> IF Falsy(score) THEN JNum(0) ELSE parseInt(score[1]),
                language |-> Get(searchParams, "language"),
                crashed |-> RenderThrows(parsedQuiz)])
  /\ lastClick' = "none"
  /\ UNCHANGED <<uiVars, sessionVars, isGenerating, isSubmitting, timers,
                 flow, pushes, sessionNo, pageVars, analysis>>

\* the Finish Quiz button, and handleFinishQuiz of the latest render
handleFinishQuiz ==
  /\ quizStarted
  /\ pushes' = Append(pushes, Handoff(quiz, quizLanguage, sessionNo))
  /\ quizStarted' = FALSE
  /\ lastClick' = "none"
  /\ UNCHANGED <<uiVars, quiz, activeQuestionIndex, quizLanguage, isGenerating,
                 isSubmitting, timers, flow, sessionNo>>
  /\ UNCHANGED elsewhere

\* setActiveQuestionIndex((prevIndex) => prevIndex + 1)
NextIndex_same(prevIndex) == prevIndex

NextIndex(prevIndex) == prevIndex + 1

\* moveToNextQuestion of a closure: does it advance (or finish)?
Advances_offByOne(c) == c.activeQuestionIndex < Len(c.quiz)

Advances(c) == c.activeQuestionIndex < Len(c.quiz) - 1

\* the setTimeout callback runs (equal delays: the oldest timer first):
\* setIsSubmitting(false); moveToNextQuestion()
TimerFires_keepsLock ==
  /\ timers # <<>>
  /\ LET c == Head(timers) IN
       /\ timers' = Tail(timers)
       /\ IF Advances(c)
            THEN /\ activeQuestionIndex' = NextIndex(activeQuestionIndex)
                 /\ lastClick' = "none"
                 /\ UNCHANGED <<quizStarted, pushes>>
            ELSE /\ pushes' = Append(pushes, Handoff(c.quiz, c.quizLanguage, c.session))
                 /\ quizStarted' = FALSE
                 /\ lastClick' = "none"
                 /\ UNCHANGED activeQuestionIndex
  /\ UNCHANGED <<uiVars, quiz, quizLanguage, isGenerating, isSubmitting, flow,
                 sessionNo>>
  /\ UNCHANGED elsewhere

TimerFires ==
  /\ timers # <<>>
  /\ LET c == Head(timers) IN
       /\ timers' = Tail(timers)
       /\ isSubmitting' = FALSE
       /\ IF Advances(c)
            THEN /\ activeQuestionIndex' = NextIndex(activeQuestionIndex)
                 /\ lastClick' = "none"
                 /\ UNCHANGED <<quizStarted, pushes>>
            ELSE /\ pushes' = Append(pushes, Handoff(c.quiz, c.quizLanguage, c.session))
                 /\ quizStarted' = FALSE
                 /\ lastClick' = "none"
                 /\ UNCHANGED activeQuestionIndex
  /\ UNCHANGED <<uiVars, quiz, quizLanguage, isGenerating, flow, sessionNo>>
  /\ UNCHANGED elsewhere

\* ---------------------------------------------------------- specification
Next ==
  \/ \E n \in RequestCounts : SetNumQuestions(n)
  \/ \E file \in {DataUri} : handleImageUpload(file)
  \/ generateQuiz
  \/ FlowEnter
  \/ \E l \in Languages : DetectReturns(l)
  \/ \E out \in GeneratorOutputs : GenerateReturns(out)
  \/ TranslationBlockReturns
  \/ FlowCallFails
  \/ generateQuizResolved
  \/ generateQuizRejected
  \/ \E optionIndex \in ClickIndices : handleAnswerSelection(optionIndex)
  \/ handleFinishQuiz
  \/ TimerFires

Spec == Init /\ [][Next]_vars

\* the timer callback runs once its delay has elapsed
FairSpec == Spec /\ WF_vars(TimerFires)

\* The page with the clicks that find no option button made visible
ClickNext ==
  \/ Next
  \/ \E optionIndex \in ClickIndices : ClickWithoutButton(optionIndex)

ClickSpec == Init /\ [][ClickNext]_vars

\* The generation flow with its translateTextTool calls taken one by one
\* (Spec takes a translation block as one step), driven by the page up to the
\* start of the quiz.
FlowRequestCounts == RequestCounts \cup {MaxQuestions + 1}

FlowNext ==
  \/ \E n \in FlowRequestCounts : SetNumQuestions(n)
  \/ \E file \in {DataUri} : handleImageUpload(file)
  \/ generateQuiz
  \/ FlowEnter
  \/ \E l \in Languages : DetectReturns(l)
  \/ \E out \in GeneratorOutputs : GenerateReturns(out)
  \/ \E p \in flow.pending : TranslateReturns(p)
  \/ \E p \in flow.pending : TranslateFails(p)
  \/ FlowCallFails
  \/ generateQuizResolved
  \/ generateQuizRejected

FlowSpec == Init /\ [][FlowNext]_vars

\* the payload the flow returns for a generator output and a detected
\* language: translateTextTool is applied unless the language is 'en'
Payload(out, language) ==
  IF language = "en" THEN out ELSE TranslateAll(out, language)

\* One quiz from its start to the results page
HandoffInit ==
  /\ numQuestions = DefaultNumQuestions
  /\ imageSrc = DataUri
  /\ \E out \in GeneratorOutputs, language \in Languages :
       /\ quiz = initialQuizState(Payload(out, language))
       /\ quizLanguage = language
  /\ activeQuestionIndex = 0
  /\ quizStarted = TRUE
  /\ isGenerating = FALSE
  /\ isSubmitting = FALSE
  /\ timers = <<>>
  /\ flow = IdleFlow
  /\ pushes = <<>>
  /\ sessionNo = 1
  /\ lastClick = "none"
  /\ resultsPage = Null
  /\ quizHistory = <<>>
  /\ toasts = <<>>
  /\ camera = IdleCamera
  /\ pageCalls = 0
  /\ analysis = Null

HandoffNext ==
  \/ \E optionIndex \in ClickIndices : handleAnswerSelection(optionIndex)
  \/ handleFinishQuiz
  \/ TimerFires
  \/ \E e \in Edits : QuizResultsPage(e)

HandoffSpec == HandoffInit /\ [][HandoffNext]_vars

\* The exported generateQuizFromImage called with an input of its type, and
\* the flow run of that call
CallInit ==
  /\ numQuestions = DefaultNumQuestions
  /\ imageSrc = NoImage
  /\ quiz = <<>>
  /\ activeQuestionIndex = 0
  /\ quizStarted = FALSE
  /\ quizLanguage = ""
  /\ isGenerating = FALSE
  /\ isSubmitting = FALSE
  /\ timers = <<>>
  /\ \E uri \in PhotoDataUris, n \in FlowRequestCounts :
       flow = [IdleFlow EXCEPT
                 !.pc = "called",
                 !.input = Some([photoDataUri |-> uri, numQuestions |-> n])]
  /\ pushes = <<>>
  /\ sessionNo = 0
  /\ lastClick = "none"
  /\ resultsPage = Null
  /\ quizHistory = <<>>
  /\ toasts = <<>>
  /\ camera = IdleCamera
  /\ pageCalls = 0
  /\ analysis = Null

CallNext ==
  \/ FlowEnter
  \/ \E l \in Languages : DetectReturns(l)
  \/ \E out \in GeneratorOutputs : GenerateReturns(out)
  \/ \E p \in flow.pending : TranslateReturns(p)
  \/ \E p \in flow.pending : TranslateFails(p)
  \/ FlowCallFails

CallSpec == CallInit /\ [][CallNext]_vars

\* ------------------------------------------- the page with a quiz history

\* what the handlers of the page with a quiz history leave alone: the cells
\* of the page with the timer, the flow, the results page, the analysis flow
notThisPage ==
  <<numQuestions, quizLanguage, isGenerating, isSubmitting, timers, flow,
    pushes, lastClick, resultsPage, analysis>>

\* toast({title, description})
Toast(title, description) == [title |-> title, description |-> description]

\* canvas.toDataURL('image/png')
CapturedImage == "data:image/png;base64,frame"

\* the rejection reason of getUserMedia when access is denied
NotAllowedError == "NotAllowedError"

\* handleImageUpload of this page: reader.onloadend sets imageSrc
page_handleImageUpload(file) ==
  /\ ~quizStarted
  /\ imageSrc' = file
  /\ toasts' = <<>>
  /\ UNCHANGED <<quiz, activeQuestionIndex, quizStarted, sessionNo,
                 quizHistory, camera, pageCalls>>
  /\ UNCHANGED notThisPage

\* the Continue button of the Capture Image dialog: handleCaptureImage calls
\* captureImage, which creates the promise and the video element (not yet in
\* the document) and calls getUserMedia
handleCaptureImage ==
  /\ ~quizStarted
  /\ camera.pc \in {"idle", "done", "threw"}
  /\ camera' = [IdleCamera EXCEPT !.pc = "getUserMedia", !.promise = "pending"]
  /\ toasts' = <<>>
  /\ UNCHANGED <<imageSrc, quiz, activeQuestionIndex, quizStarted, sessionNo,
                 quizHistory, pageCalls>>
  /\ UNCHANGED notThisPage

\* getUserMedia resolves with a stream: the then callback appends the video
\* to the body and registers the loadedmetadata listener
getUserMediaResolves ==
  /\ camera.pc = "getUserMedia"
  /\ camera' = [camera EXCEPT !.pc = "streaming", !.inBody = TRUE,
                              !.tracks = "live"]
  /\ toasts' = <<>>
  /\ UNCHANGED <<imageSrc, quiz, activeQuestionIndex, quizStarted, sessionNo,
                 quizHistory, pageCalls>>
  /\ UNCHANGED notThisPage

\* the loadedmetadata listener: draw, toDataURL, stop every track, remove
\* the video, resolve
loadedmetadata ==
  /\ camera.pc = "streaming"
  /\ camera' = [camera EXCEPT !.pc = "settled", !.tracks = "stopped",
                              !.inBody = FALSE, !.promise = "resolved",
                              !.reason = Some(CapturedImage)]
  /\ toasts' = <<>>
  /\ UNCHANGED <<imageSrc, quiz, activeQuestionIndex, quizStarted, sessionNo,
                 quizHistory, pageCalls>>
  /\ UNCHANGED notThisPage

\* document.body.removeChild(video) throws NotFoundError when the video is
\* not a child of the body
removeChildThrows(c) == ~c.inBody

\* getUserMedia rejects: the catch callback removes the video from the body
\* and then rejects; when removeChild throws, the callback ends there and
\* reject(err) is not reached
getUserMediaRejects ==
  /\ camera.pc = "getUserMedia"
  /\ camera' = IF removeChildThrows(camera)
                 THEN [camera EXCEPT !.pc = "threw"]
                 ELSE [camera EXCEPT !.pc = "settled", !.inBody = FALSE,
                                     !.promise = "rejected",
                                     !.reason = Some(NotAllowedError)]
  /\ toasts' = <<>>
  /\ UNCHANGED <<imageSrc, quiz, activeQuestionIndex, quizStarted, sessionNo,
                 quizHistory, pageCalls>>
  /\ UNCHANGED notThisPage

\* handleCaptureImage after the await: the image on success, the toast of
\* the catch block on failure
captureImageSettled ==
  /\ camera.pc = "settled"
  /\ IF camera.promise = "resolved"
       THEN /\ imageSrc' = camera.reason[1]
            /\ toasts' = <<>>
       ELSE /\ toasts' = <<Toast("Failed to capture image.",
                                 <<camera.reason[1]>>)>>
            /\ UNCHANGED imageSrc
  /\ camera' = [camera EXCEPT !.pc = "done"]
  /\ UNCHANGED <<quiz, activeQuestionIndex, quizStarted, sessionNo,
                 quizHistory, pageCalls>>
  /\ UNCHANGED notThisPage

\* the Generate Quiz button (disabled={!imageSrc}) and generateQuiz up to the
\* await; nothing disables the button while a call is in flight
page_generateQuiz ==
  /\ ~quizStarted
  /\ imageSrc # NoImage
  /\ sessionNo + pageCalls < MaxSessions
  /\ pageCalls' = pageCalls + 1
  /\ toasts' = <<>>
  /\ UNCHANGED <<imageSrc, quiz, activeQuestionIndex, quizStarted, sessionNo,
                 quizHistory, camera>>
  /\ UNCHANGED notThisPage

\* initialQuizState of this page: userAnswer null, no isCorrect
page_initialQuizState(questions) ==
  [k \in DOMAIN questions |->
     [question |-> questions[k].question,
      options |-> questions[k].options,
      correctAnswerIndex |-> questions[k].correctAnswerIndex,
      userAnswer |-> Null]]

\* generateQuiz after the await, success
page_generateQuizResolved(questions) ==
  /\ pageCalls > 0
  /\ pageCalls' = pageCalls - 1
  /\ quiz' = page_initialQuizState(questions)
  /\ activeQuestionIndex' = 0
  /\ quizStarted' = TRUE
  /\ sessionNo' = sessionNo + 1
  /\ toasts' = <<>>
  /\ UNCHANGED <<imageSrc, quizHistory, camera>>
  /\ UNCHANGED notThisPage

\* generateQuiz after the await, failure: the toast of the catch block
page_generateQuizRejected ==
  /\ pageCalls > 0
  /\ pageCalls' = pageCalls - 1
  /\ toasts' = <<Toast("Failed to generate quiz. Please try again.",
                       <<"error.message">>)>>
  /\ UNCHANGED <<imageSrc, quiz, activeQuestionIndex, quizStarted, sessionNo,
                 quizHistory, camera>>
  /\ UNCHANGED notThisPage

\* an option button (disabled={currentQuestion.userAnswer !== null}) and
\* handleAnswerSelection of this page
page_handleAnswerSelection(optionIndex) ==
  /\ quizStarted
  /\ HasCurrentQuestion
  /\ optionIndex + 1 \in DOMAIN currentQuestion.options
  /\ currentQuestion.userAnswer = Null
  /\ quiz' = [quiz EXCEPT ![activeQuestionIndex + 1].userAnswer =
                            Some(optionIndex)]
  /\ toasts' = <<>>
  /\ UNCHANGED <<imageSrc, activeQuestionIndex, quizStarted, sessionNo,
                 quizHistory, camera, pageCalls>>
  /\ UNCHANGED notThisPage

\* const isLastQuestion = activeQuestionIndex === quiz.length - 1
isLastQuestion == activeQuestionIndex = Len(quiz) - 1

\* disabled={currentQuestion?.userAnswer === null}: without a current
\* question the left side is undefined, which is not null
NextDisabled_never == FALSE

NextDisabled == HasCurrentQuestion /\ currentQuestion.userAnswer = Null

\* the Next button and handleNextQuestion
handleNextQuestion ==
  /\ quizStarted
  /\ ~isLastQuestion
  /\ ~NextDisabled
  /\ activeQuestionIndex < MaxLen
  /\ activeQuestionIndex' = activeQuestionIndex + 1
  /\ toasts' = <<>>
  /\ UNCHANGED <<imageSrc, quiz, quizStarted, sessionNo, quizHistory, camera,
                 pageCalls>>
  /\ UNCHANGED notThisPage

\* the Previous button, shown when activeQuestionIndex > 0
PreviousShown == activeQuestionIndex > 0

Previous ==
  /\ quizStarted
  /\ PreviousShown
  /\ activeQuestionIndex' = activeQuestionIndex - 1
  /\ toasts' = <<>>
  /\ UNCHANGED <<imageSrc, quiz, quizStarted, sessionNo, quizHistory, camera,
                 pageCalls>>
  /\ UNCHANGED notThisPage

\* a / b and x * c of JavaScript numbers, kept as numerator and denominator;
\* denominator 0 is Infinity, -Infinity or NaN by the sign of the numerator
Divide(a, b) == <<a, b>>
Times(x, c) == <<x[1] * c, x[2]>>

\* x > t
GreaterThan(x, t) ==
  IF x[2] > 0 THEN x[1] > t * x[2]
  ELSE IF x[2] < 0 THEN x[1] < t * x[2]
  ELSE x[1] > 0

getCongratulatoryMessage_lowBar(score, length) ==
  LET percentage == Times(Divide(score, length), 100)
  IN IF GreaterThan(percentage, 90) THEN "Excellent!"
     ELSE IF GreaterThan(percentage, 60) THEN "Good job!"
     ELSE IF GreaterThan(percentage, 50) THEN "Not bad, keep practicing!"
     ELSE "Better luck next time!"

getCongratulatoryMessage(score, length) ==
  LET percentage == Times(Divide(score, length), 100)
  IN IF GreaterThan(percentage, 90) THEN "Excellent!"
     ELSE IF GreaterThan(percentage, 70) THEN "Good job!"
     ELSE IF GreaterThan(percentage, 50) THEN "Not bad, keep practicing!"
     ELSE "Better luck next time!"

\* the Finish Quiz button, shown on the last question, and handleFinishQuiz
\* of this page; the date of the entry is kept as the number of the quiz
page_handleFinishQuiz ==
  /\ quizStarted
  /\ isLastQuestion
  /\ LET score == calculateScore(quiz)
     IN /\ toasts' = <<Toast(getCongratulatoryMessage(score, Len(quiz)),
                             <<"You scored ", score, " out of ", Len(quiz),
                               ".">>)>>
        /\ quizHistory' = Append(quizHistory,
                                 [quiz |-> quiz, score |-> score,
                                  date |-> sessionNo])
  /\ quizStarted' = FALSE
  /\ UNCHANGED <<imageSrc, quiz, activeQuestionIndex, sessionNo, camera,
                 pageCalls>>
  /\ UNCHANGED notThisPage

PageNext ==
  \/ \E file \in {DataUri} : page_handleImageUpload(file)
  \/ handleCaptureImage
  \/ getUserMediaResolves
  \/ loadedmetadata
  \/ getUserMediaRejects
  \/ captureImageSettled
  \/ page_generateQuiz
  \/ \E questions \in GeneratorOutputs : page_generateQuizResolved(questions)
  \/ page_generateQuizRejected
  \/ \E optionIndex \in ClickIndices : page_handleAnswerSelection(optionIndex)
  \/ handleNextQuestion
  \/ Previous
  \/ page_handleFinishQuiz

PageSpec == Init /\ [][PageNext]_vars

\* a quiz of this page with answers: the index of the question's correct
\* option, another index, or none
Marks == {"right", "wrong", "none"}

Answered(questions, marks) ==
  [k \in DOMAIN questions |->
     [questions[k] EXCEPT
        !.userAnswer =
          IF marks[k] = "right" THEN Some(questions[k].correctAnswerIndex)
          ELSE IF marks[k] = "wrong"
            THEN Some((questions[k].correctAnswerIndex + 1) % NumOptions)
          ELSE Null]]

\* the states in which the Finish Quiz button is shown for quizzes of up to
\* the default number of questions: the last question is the active one, and
\* the questions before it, left by the Next button, are answered
FinishInit ==
  /\ numQuestions = DefaultNumQuestions
  /\ imageSrc = DataUri
  /\ \E n \in 1..DefaultNumQuestions :
       /\ \E marks \in [1..n -> Marks] :
            /\ \A k \in 1..(n - 1) : marks[k] # "none"
            /\ quiz = Answered(page_initialQuizState(WellFormed(n)), marks)
       /\ activeQuestionIndex = n - 1
  /\ quizStarted = TRUE
  /\ quizLanguage = ""
  /\ isGenerating = FALSE
  /\ isSubmitting = FALSE
  /\ timers = <<>>
  /\ flow = IdleFlow
  /\ pushes = <<>>
  /\ sessionNo = 1
  /\ lastClick = "none"
  /\ resultsPage = Null
  /\ quizHistory = <<>>
  /\ toasts = <<>>
  /\ camera = IdleCamera
  /\ pageCalls = 0
  /\ analysis = Null

FinishNext == page_handleFinishQuiz

FinishSpec == FinishInit /\ [][FinishNext]_vars

\* ------------------------------------------------ analyzeQuizPerformance

\* an entry of quizHistory in the flow's input
HistoryEntry(isCorrect) ==
  [question |-> "question",
   userAnswer |-> IF isCorrect THEN "right" ELSE "wrong",
   correctAnswer |-> "right",
   isCorrect |-> isCorrect]

\* the inputs of the flow: up to MaxLen entries, a difficulty level inside
\* and outside the enum, and a numberOfQuestions that is any number
AnalysisHistories ==
  UNION {[1..n -> {HistoryEntry(b) : b \in BOOLEAN}] : n \in 0..MaxLen}

AnalysisCounts == {0 - 1, 0, 1, MaxLen}

AnalysisInputs ==
  [quizHistory : AnalysisHistories,
   difficultyLevel : {"medium", "expert"},
   numberOfQuestions : AnalysisCounts]

\* AnalyzeQuizPerformanceInputSchema: numberOfQuestions is z.number()
AnalysisInputOk(input) ==
  input.difficultyLevel \in {"easy", "medium", "hard"}

\* quizHistory.filter(q => q.isCorrect).length
correctAnswers(history) ==
  Cardinality({k \in DOMAIN history : history[k].isCorrect})

\* what the prompt may return: its own score among the fields
ModelOutputs ==
  {[overallFeedback |-> "feedback", areasForImprovement |-> <<>>,
    encouragingMessage |-> "message", score |-> <<m, 1>>] : m \in {40, 100}}

\* the flow is entered: the input schema, then the score
analyzeQuizPerformanceFlow ==
  /\ analysis # Null
  /\ analysis[1].pc = "called"
  /\ analysis' =
       IF AnalysisInputOk(analysis[1].input)
         THEN Some([analysis[1] EXCEPT
                      !.pc = "prompt",
                      !.score =
                        Some(Times(Divide(
                               correctAnswers(analysis[1].input.quizHistory),
                               analysis[1].input.numberOfQuestions), 100))])
         ELSE Some([analysis[1] EXCEPT !.pc = "rejected"])
  /\ UNCHANGED <<uiVars, sessionVars, isGenerating, isSubmitting, timers,
                 flow, pushes, sessionNo, lastClick, resultsPage, pageVars>>

\* the prompt returns and the flow returns {...output, score}
AnalysisReturn(output, score) == [output EXCEPT !.score = score]

promptReturns(output) ==
  /\ analysis # Null
  /\ analysis[1].pc = "prompt"
  /\ analysis' = Some([analysis[1] EXCEPT
                         !.pc = "returned",
                         !.output = Some(AnalysisReturn(output,
                                                        analysis[1].score[1]))])
  /\ UNCHANGED <<uiVars, sessionVars, isGenerating, isSubmitting, timers,
                 flow, pushes, sessionNo, lastClick, resultsPage, pageVars>>

\* a score that is NaN or an Infinity may be refused where a schema checks
\* the number: the call is rejected
scoreRefused ==
  /\ analysis # Null
  /\ analysis[1].pc = "prompt"
  /\ analysis[1].score[1][2] = 0
  /\ analysis' = Some([analysis[1] EXCEPT !.pc = "rejected"])
  /\ UNCHANGED <<uiVars, sessionVars, isGenerating, isSubmitting, timers,
                 flow, pushes, sessionNo, lastClick, resultsPage, pageVars>>

AnalyzeInit ==
  /\ numQuestions = DefaultNumQuestions
  /\ imageSrc = NoImage
  /\ quiz = <<>>
  /\ activeQuestionIndex = 0
  /\ quizStarted = FALSE
  /\ quizLanguage = ""
  /\ isGenerating = FALSE
  /\ isSubmitting = FALSE
  /\ timers = <<>>
  /\ flow = IdleFlow
  /\ pushes = <<>>
  /\ sessionNo = 0
  /\ lastClick = "none"
  /\ resultsPage = Null
  /\ quizHistory = <<>>
  /\ toasts = <<>>
  /\ camera = IdleCamera
  /\ pageCalls = 0
  /\ \E input \in AnalysisInputs :
       analysis = Some([pc |-> "called", input |-> input, score |-> Null,
                        output |-> Null])

AnalyzeNext ==
  \/ analyzeQuizPerformanceFlow
  \/ \E output \in ModelOutputs : promptReturns(output)
  \/ scoreRefused

AnalyzeSpec == AnalyzeInit /\ [][AnalyzeNext]_vars

\* ------------------------------------------------------------------ claims

\* C1: whenever generateQuizPrompt has been invoked in a run of the flow,
\* detectLanguageTool has returned in that run and the prompt was given the
\* language it returned.
C1_DetectBeforeGenerate ==
  flow.prompt # Null =>
    /\ flow.detectedLanguage # Null
    /\ flow.prompt[1].language = flow.detectedLanguage[1]

C1_Witness ==
  /\ flow.pc = "generate"
  /\ flow.prompt # Null
  /\ flow.prompt[1].language = "es"

\* C2: a flow that returns a payload for a request of n questions returns
\* exactly n questions.
C2_ExactCount ==
  flow.pc = "resolved" => Len(flow.output) = flow.input[1].numQuestions

\* the handoffs of the quiz in progress (not those of a timer of an earlier quiz)
OwnPushes == {i \in DOMAIN pushes : pushes[i].session = sessionNo}

\* C3: the score handed off at Finish is the number of questions of the
\* session whose committed answer is the correct one.
C3_ScoreCountsCommitted ==
  \A i \in OwnPushes : pushes[i].score = calculateScore(pushes[i].live)

\* C4: once a question has a recorded answer, its userAnswer and isCorrect
\* stay as they are for the rest of the session, whatever is clicked later.
C4_FirstAnswerFinal ==
  [][sessionNo' = sessionNo =>
       \A k \in DOMAIN quiz :
         quiz[k].userAnswer # Null =>
           /\ k \in DOMAIN quiz'
           /\ quiz'[k].userAnswer = quiz[k].userAnswer
           /\ quiz'[k].isCorrect = quiz[k].isCorrect]_vars

C4_Witness ==
  /\ lastClick = "disabled"
  /\ quizStarted
  /\ HasCurrentQuestion
  /\ currentQuestion.userAnswer # Null
  /\ currentQuestion.userAnswer # Some(1)

\* an answer has just been recorded on question i, which is not the last one
Recorded(i) ==
  /\ lastClick = "accepted"
  /\ activeQuestionIndex = i
  /\ i < Len(quiz) - 1

\* C5 as claimed: after an answer is recorded on question i < N-1 the session
\* eventually is Active(i+1).
C5_AlwaysAdvances ==
  \A i \in 0..MaxLen : Recorded(i) ~> (quizStarted /\ activeQuestionIndex = i + 1)

\* C5 as amended: after an answer is recorded on question i < N-1 the session
\* eventually is Active(i+1), unless the quiz is finished during the delay;
\* and the index only ever moves by one, in a step that consumes a timer
\* (or back to 0 when a quiz is started).
C5_AdvancesUnlessFinished ==
  /\ \A i \in 0..MaxLen :
       Recorded(i) ~> ((quizStarted /\ activeQuestionIndex = i + 1) \/ ~quizStarted)
  /\ [][activeQuestionIndex' # activeQuestionIndex =>
          \/ sessionNo' = sessionNo + 1 /\ activeQuestionIndex' = 0
          \/ /\ activeQuestionIndex' = activeQuestionIndex + 1
             /\ timers # <<>>
             /\ timers' = Tail(timers)]_vars

C5_Witness ==
  /\ quizStarted
  /\ activeQuestionIndex = 1
  /\ timers = <<>>
  /\ quiz[1].userAnswer # Null
  /\ pushes = <<>>

\* C6: a pending timer belongs to the quiz in progress: none survives a
\* Finish or a new Start.
C6_TimerCancelled ==
  \A k \in DOMAIN timers : quizStarted /\ timers[k].session = sessionNo

\* C7: the quiz handed off at Finish carries the answer state committed in
\* the session, for every question.
C7_HandoffCarriesAnswers ==
  \A i \in OwnPushes : pushes[i].quiz = pushes[i].live

\* C8: between one Start and the next, the handoff happens at most once.
C8_OneHandoff == Len(pushes) <= 1

\* C9: at most one auto-advance timer is pending.
C9_OneTimer == Len(timers) <= 1

C9_Witness ==
  /\ lastClick = "ignored"
  /\ Len(timers) = 1
  /\ quizStarted

\* C10: while a quiz is started, the active index names one of its questions.
C10_IndexInRange ==
  quizStarted => activeQuestionIndex \in 0..(Len(quiz) - 1)

\* the Finish Quiz button has been clicked in this step
ManualFinish == quizStarted /\ ~quizStarted' /\ timers' = timers

\* the questions of q whose recorded answer is the correct option
CorrectCount(q) ==
  Cardinality({k \in DOMAIN q :
                 /\ q[k].userAnswer # Null
                 /\ q[k].userAnswer[1] = q[k].correctAnswerIndex})

\* C11: Finish Quiz is available at every question of a started quiz; it
\* ends the quiz at once, changes no question (the unanswered stay
\* unanswered), hands off all N questions with their answers, and the score
\* handed off counts the correctly answered questions only.
C11_FinishAnywhere ==
  /\ [](quizStarted => ENABLED handleFinishQuiz)
  /\ [][ManualFinish =>
          /\ quiz' = quiz
          /\ Len(pushes') = Len(pushes) + 1
          /\ LET h == pushes'[Len(pushes')] IN
               /\ Len(h.quiz) = Len(quiz)
               /\ \A k \in DOMAIN quiz : h.quiz[k].userAnswer = quiz[k].userAnswer
               /\ h.score = CorrectCount(quiz)]_vars

C11_Witness ==
  /\ ~quizStarted
  /\ Len(quiz) = MaxLen
  /\ quiz[1].isCorrect = Some(TRUE)
  /\ quiz[Len(quiz)].userAnswer = Null
  /\ Len(pushes) = 1
  /\ pushes[1].quiz = quiz
  /\ pushes[1].score = 1

\* an answer has just been recorded on the last question
RecordedLast ==
  /\ lastClick = "accepted"
  /\ activeQuestionIndex = Len(quiz) - 1

\* C12: after an answer is recorded on the last question the quiz eventually
\* is finished, and the timer of an answer to a last question finishes the
\* quiz without moving the index.
C12_LastAnswerFinishes ==
  /\ RecordedLast ~> ~quizStarted
  /\ [][(/\ timers # <<>>
         /\ timers' = Tail(timers)
         /\ Head(timers).activeQuestionIndex >= Len(Head(timers).quiz) - 1)
          => /\ activeQuestionIndex' = activeQuestionIndex
             /\ ~quizStarted']_vars

C12_Witness ==
  /\ ~quizStarted
  /\ Len(quiz) = MaxLen
  /\ \A k \in DOMAIN quiz : quiz[k].userAnswer # Null
  /\ activeQuestionIndex = Len(quiz) - 1
  /\ timers = <<>>
  /\ Len(pushes) = 1

C14_NoAnswerWhenIdle ==
  [][~quizStarted =>
       /\ sessionNo' = sessionNo => quiz' = quiz
       /\ Len(timers') <= Len(timers)]_vars

C14_Witness ==
  /\ lastClick = "absent"
  /\ ~quizStarted
  /\ HasCurrentQuestion
  /\ currentQuestion.userAnswer = Null
  /\ ~isSubmitting

\* the flow holds a request whose numQuestions is outside [1, 10]
OutOfRange ==
  /\ flow.input # Null
  /\ \/ flow.input[1].numQuestions < MinQuestions
     \/ flow.input[1].numQuestions > MaxQuestions

\* C15: a request whose numQuestions is outside [1, 10] is rejected before
\* the language detection, the generator or a translation is called; the
\* request keeps its count until the call is over, and no quiz is started
\* from it.
C15_OutOfRangeRejected ==
  /\ [](OutOfRange =>
          /\ flow.pc \in {"called", "rejected"}
          /\ flow.detectedLanguage = Null
          /\ flow.prompt = Null
          /\ flow.output = Null
          /\ flow.made = {})
  /\ [][OutOfRange =>
          /\ flow'.input \in {flow.input, Null}
          /\ UNCHANGED sessionVars
          /\ sessionNo' = sessionNo]_vars

C15_Witness ==
  /\ flow.pc = "rejected"
  /\ flow.input # Null
  /\ flow.input[1].numQuestions = MaxQuestions + 1
  /\ flow.detectedLanguage = Null

\* the language a returned flow has detected
Detected == flow.detectedLanguage[1]

\* C16: when the flow returns for a detected language other than 'en' and
\* 'mr', translateTextTool has been called with that language as target for
\* the text and for every option of every question the generator produced,
\* and the payload holds the result of that call at each of these positions.
C16_ForeignAllTranslated ==
  (flow.pc = "resolved" /\ Detected \notin NativeLanguages) =>
     /\ Len(flow.output) = Len(flow.draft)
     /\ \A k \in DOMAIN flow.draft :
          /\ <<"translate", k, 0, Detected>> \in flow.made
          /\ flow.output[k].question =
               translateTextTool(flow.draft[k].question, Detected)
          /\ DOMAIN flow.output[k].options = DOMAIN flow.draft[k].options
          /\ \A j \in DOMAIN flow.draft[k].options :
               /\ <<"translate", k, j, Detected>> \in flow.made
               /\ flow.output[k].options[j] =
                    translateTextTool(flow.draft[k].options[j], Detected)

C16_Witness ==
  /\ flow.pc = "resolved"
  /\ Detected = "es"
  /\ Len(flow.draft) >= 1
  /\ NumOptions \in DOMAIN flow.output[1].options
  /\ flow.output[1].options[NumOptions] = Text(1, NumOptions, "es")

\* C17: once the language is detected as 'en' or 'mr', the flow makes no
\* translateTextTool call.
C17_NativeNeverTranslated ==
  (flow.detectedLanguage # Null /\ Detected \in NativeLanguages) =>
     flow.made = {}

\* where the texts of a question list come from
Provenances(questions) ==
  {TextAt(questions, p)[3] : p \in Positions(questions)}

\* C18: a payload the flow returns, and a quiz the page starts from it, never
\* mixes texts returned by translateTextTool with texts the generator
\* produced.
C18_NoMixedPayload ==
  /\ flow.pc = "resolved" => Cardinality(Provenances(flow.output)) <= 1
  /\ quizStarted => Cardinality(Provenances(quiz)) <= 1

C18_Witness ==
  /\ flow.pc = "rejected"
  /\ ~quizStarted
  /\ \E c \in flow.made : c[3] >= 1

\* C19: the flow returns only when no translateTextTool call is pending, and
\* whatever the order in which the calls completed, each text of the payload
\* is the translation of the generator's text at the same position.
C19_PositionsKept ==
  (flow.pc = "resolved" /\ flow.made # {}) =>
     /\ flow.pending = {}
     /\ Len(flow.output) = Len(flow.draft)
     /\ \A p \in Positions(flow.draft) :
          /\ p \in Positions(flow.output)
          /\ TextAt(flow.output, p)[1] = TextAt(flow.draft, p)[1]
          /\ TextAt(flow.output, p)[2] = TextAt(flow.draft, p)[2]
          /\ TextAt(flow.output, p)[3] = Detected

C19_Witness ==
  /\ flow.pc = "resolved"
  /\ Len(flow.draft) = MaxLen
  /\ Len(flow.order) = MaxLen
  /\ flow.order[1] = MaxLen
  /\ flow.made # {}

\* C20: no step of a generation call other than its successful end changes
\* the quiz, the active index, the quiz language or quizStarted, and a failed
\* call leaves the page without a started quiz.
C20_FailureKeepsSession ==
  /\ [](flow.pc = "rejected" => ~quizStarted)
  /\ [][(flow' # flow /\ sessionNo' = sessionNo) => UNCHANGED sessionVars]_vars

C20_Witness ==
  /\ flow.pc = "rejected"
  /\ flow.output # Null
  /\ quiz # <<>>
  /\ ~quizStarted

\* C23: every question of a payload the flow returns has exactly 4 options
\* and a correctAnswerIndex that is the index of one of them.
C23_FourOptions ==
  flow.pc = "resolved" =>
    \A k \in DOMAIN flow.output :
      /\ Len(flow.output[k].options) = NumOptions
      /\ flow.output[k].correctAnswerIndex \in 0..(NumOptions - 1)

\* C24: a question has a verdict exactly when it has an answer, the verdict
\* says whether the answer is the correct option, and a verdict, once there,
\* stays as it is for the rest of the session.
C24_VerdictMatchesAnswer ==
  /\ [](\A k \in DOMAIN quiz :
          /\ quiz[k].isCorrect # Null <=> quiz[k].userAnswer # Null
          /\ quiz[k].userAnswer # Null =>
               quiz[k].isCorrect =
                 Some(quiz[k].userAnswer[1] = quiz[k].correctAnswerIndex))
  /\ [][sessionNo' = sessionNo =>
          \A k \in DOMAIN quiz :
            quiz[k].isCorrect # Null =>
              k \in DOMAIN quiz' /\ quiz'[k].isCorrect = quiz[k].isCorrect]_vars

C24_Witness ==
  /\ quizStarted
  /\ Len(quiz) = MaxLen
  /\ activeQuestionIndex = 1
  /\ quiz[1].isCorrect = Some(FALSE)
  /\ quiz[2].isCorrect = Some(TRUE)

\* C25: within a session no step changes the number or order of the
\* questions, the text, the options or the correct index of a question, or
\* anything of a question other than the one at the active index.
C25_QuestionsImmutable ==
  [][sessionNo' = sessionNo =>
       /\ Len(quiz') = Len(quiz)
       /\ \A k \in DOMAIN quiz :
            /\ quiz'[k].question = quiz[k].question
            /\ quiz'[k].options = quiz[k].options
            /\ quiz'[k].correctAnswerIndex = quiz[k].correctAnswerIndex
            /\ k # activeQuestionIndex + 1 => quiz'[k] = quiz[k]]_vars

C25_Witness ==
  /\ quizStarted
  /\ isSubmitting
  /\ Len(quiz) = MaxLen
  /\ activeQuestionIndex = MaxLen - 1
  /\ \A k \in DOMAIN quiz : quiz[k].userAnswer # Null

\* C26: a call of the flow is begun only by a click on Generate Quiz, the
\* language detection is begun only by the begin of a call and the generator
\* only after the detection of that call, and a failed call is followed by
\* no further call of its own.
C26_NoAutomaticRetry ==
  [][/\ (flow'.pc = "called" /\ flow.pc # "called") =>
          (flow.pc = "idle" /\ ~isGenerating /\ isGenerating')
     /\ (flow'.pc = "detect" /\ flow.pc # "detect") => flow.pc = "called"
     /\ (flow'.pc = "generate" /\ flow.pc # "generate") => flow.pc = "detect"
     /\ flow.pc = "rejected" => flow'.pc \in {"rejected", "idle"}]_vars

C26_Witness ==
  /\ flow.pc = "rejected"
  /\ flow.prompt # Null
  /\ flow.output = Null

\* C28: the language of every handoff since the quiz was started is the
\* language of the payload that quiz was started from.
C28_HandoffLanguage ==
  \A i \in DOMAIN pushes : pushes[i].language = quizLanguage

\* C30: isSubmitting is true exactly while an auto-advance timer is pending,
\* and after an accepted answer it eventually is false again.
C30_LockMirrorsTimer ==
  /\ [](isSubmitting <=> timers # <<>>)
  /\ (lastClick = "accepted") ~> ~isSubmitting

C30_Witness ==
  /\ sessionNo = 2
  /\ quizStarted
  /\ ~isSubmitting
  /\ timers = <<>>
  /\ activeQuestionIndex = 1
  /\ quiz[1].userAnswer # Null

\* C29: a call whose photoDataUri is not a data URI with a MIME type and
\* base64 data is rejected before the language detection or the generator is
\* called.
C29_MalformedImageRejected ==
  (flow.input # Null /\ flow.input[1].photoDataUri \notin WellFormedUris) =>
     /\ flow.pc \in {"called", "rejected"}
     /\ flow.detectedLanguage = Null
     /\ flow.prompt = Null

\* C21: the results page opened with the URL of a handoff as it was pushed
\* shows the questions of that handoff (text, options, correct index, answer
\* or none, verdict or none), its score and its language.
C21_RoundTrip ==
  (resultsPage # Null /\ resultsPage[1].edit = "none") =>
     /\ ~resultsPage[1].crashed
     /\ resultsPage[1].parsedQuiz = JsQuiz(resultsPage[1].handoff.quiz)
     /\ resultsPage[1].quizScore = JNum(resultsPage[1].handoff.score)
     /\ resultsPage[1].language = Some(resultsPage[1].handoff.language)

C21_Witness ==
  /\ resultsPage # Null
  /\ resultsPage[1].edit = "none"
  /\ Len(resultsPage[1].handoff.quiz) = MaxLen
  /\ resultsPage[1].handoff.quiz[1].userAnswer # Null
  /\ resultsPage[1].handoff.quiz[MaxLen].userAnswer = Null
  /\ resultsPage[1].handoff.score = 1
  /\ resultsPage[1].handoff.language = "es"

\* C22: the results page opened with a URL whose quiz or score parameter is
\* missing or malformed renders, without a throw, an empty list of questions
\* and the score 0.
C22_ResolveDegrades ==
  (resultsPage # Null /\ resultsPage[1].edit # "none") =>
     /\ ~resultsPage[1].crashed
     /\ resultsPage[1].parsedQuiz = JArr(<<>>)
     /\ resultsPage[1].quizScore = JNum(0)

\* C27: the step that completes a quiz appends one entry, holding the
\* questions of that quiz with their answers, to the end of the history and
\* leaves the entries before it as they are.
C27_FinishAppendsToHistory ==
  [][(quizStarted /\ ~quizStarted') =>
       /\ Len(quizHistory') = Len(quizHistory) + 1
       /\ SubSeq(quizHistory', 1, Len(quizHistory)) = quizHistory
       /\ quizHistory'[Len(quizHistory')].quiz = quiz]_vars

\* C31: in every handoff the score is the number of questions of the quiz
\* of that handoff whose userAnswer is the correctAnswerIndex, a number from
\* 0 to the number of those questions.
C31_ScoreOfOwnQuiz ==
  \A i \in DOMAIN pushes :
    /\ pushes[i].score = CorrectCount(pushes[i].quiz)
    /\ pushes[i].score \in 0..Len(pushes[i].quiz)

C31_Witness ==
  /\ Len(pushes) = 1
  /\ Len(pushes[1].quiz) = MaxLen
  /\ pushes[1].quiz[1].isCorrect = Some(FALSE)
  /\ pushes[1].quiz[2].isCorrect = Some(TRUE)
  /\ pushes[1].score = 1

\* C32: isGenerating is true exactly while a call of the flow is in flight,
\* and a call is begun only while it is false and no call is in flight.
C32_OneGeneration ==
  /\ [](isGenerating <=> flow.pc # "idle")
  /\ [][(flow'.pc = "called" /\ flow.pc # "called") =>
          (~isGenerating /\ flow.pc = "idle")]_vars

C32_Witness ==
  /\ sessionNo = 1
  /\ ~quizStarted
  /\ isGenerating
  /\ flow.pc = "generate"

\* C33: the payload the flow returns has the questions of the generator's
\* output in their order, each with its options in their order and its
\* correctAnswerIndex, and no text was given to translateTextTool twice
\* during the call.
C33_StructureKept ==
  flow.pc = "resolved" =>
    /\ Len(flow.output) = Len(flow.draft)
    /\ \A k \in DOMAIN flow.draft :
         /\ flow.output[k].correctAnswerIndex = flow.draft[k].correctAnswerIndex
         /\ flow.output[k].question[1] = flow.draft[k].question[1]
         /\ flow.output[k].question[2] = flow.draft[k].question[2]
         /\ Len(flow.output[k].options) = Len(flow.draft[k].options)
         /\ \A j \in DOMAIN flow.draft[k].options :
              /\ flow.output[k].options[j][1] = flow.draft[k].options[j][1]
              /\ flow.output[k].options[j][2] = flow.draft[k].options[j][2]
    /\ \A c, d \in flow.made : (c[2] = d[2] /\ c[3] = d[3]) => c = d

C33_Witness ==
  /\ flow.pc = "resolved"
  /\ Detected = "mr"
  /\ Len(flow.draft) = MaxLen
  /\ Cardinality(flow.made) = MaxLen * (NumOptions + 1)

\* C34: on the page with Previous and Next buttons, while a quiz is started
\* every question at an index lower than activeQuestionIndex is answered.
C34_EarlierQuestionsAnswered ==
  quizStarted =>
    \A k \in DOMAIN quiz :
      k - 1 < activeQuestionIndex => quiz[k].userAnswer # Null

C34_Witness ==
  /\ quizStarted
  /\ Len(quiz) = MaxLen
  /\ activeQuestionIndex = MaxLen - 1
  /\ \A k \in 1..(MaxLen - 1) : quiz[k].userAnswer # Null
  /\ quiz[MaxLen].userAnswer = Null

\* C35: on the page with Previous and Next buttons, while a quiz is started
\* activeQuestionIndex is the index of one of its questions, and the Finish
\* Quiz button is shown only on the last of them.
C35_IndexWithinQuiz ==
  quizStarted =>
    /\ activeQuestionIndex \in 0..(Len(quiz) - 1)
    /\ ENABLED page_handleFinishQuiz => activeQuestionIndex = Len(quiz) - 1

\* C36: a captureImage call whose getUserMedia was answered, and whose
\* metadata loaded when access was granted, has settled: resolved with the
\* image, the tracks stopped and the video out of the document, or rejected
\* with the access error.
C36_CaptureSettles ==
  /\ camera.pc \in {"settled", "done", "threw"} =>
       camera.promise \in {"resolved", "rejected"}
  /\ camera.promise = "resolved" =>
       /\ camera.reason = Some(CapturedImage)
       /\ camera.tracks = "stopped"
       /\ ~camera.inBody
  /\ camera.promise = "rejected" => camera.reason = Some(NotAllowedError)

\* the message the claim names for score s of N questions
MessageOf(s, N) ==
  IF 100 * s > 90 * N THEN "Excellent!"
  ELSE IF 70 * N < 100 * s /\ 100 * s <= 90 * N THEN "Good job!"
  ELSE IF 50 * N < 100 * s /\ 100 * s <= 70 * N
    THEN "Not bad, keep practicing!"
  ELSE "Better luck next time!"

\* C38: a Finish shows exactly one toast: its title is the message that the
\* thresholds 90, 70 and 50 percent give for the score s of the N questions,
\* and its description states s out of N.
C38_OneMessagePerFinish ==
  [][(quizStarted /\ ~quizStarted') =>
       toasts' = <<Toast(MessageOf(CorrectCount(quiz), Len(quiz)),
                         <<"You scored ", CorrectCount(quiz), " out of ",
                           Len(quiz), ".">>)>>]_vars

C38_Witness ==
  /\ ~quizStarted
  /\ Len(quiz) = DefaultNumQuestions
  /\ CorrectCount(quiz) = DefaultNumQuestions - 1
  /\ Len(toasts) = 1
  /\ toasts[1].title = "Good job!"
  /\ Len(quizHistory) = 1

\* C37: the score analyzeQuizPerformance returns is the one it computed,
\* 100 times the number of entries with isCorrect true over
\* numberOfQuestions, and it lies between 0 and 100.
C37_OwnScoreIsPercentage ==
  (analysis # Null /\ analysis[1].pc = "returned") =>
    LET input == analysis[1].input
        score == analysis[1].output[1].score
    IN /\ score = <<100 * correctAnswers(input.quizHistory),
                    input.numberOfQuestions>>
       /\ score[2] > 0
       /\ 0 <= score[1]
       /\ score[1] <= 100 * score[2]

====
